---- MODULE Spec2Model ----
(***************************************************************************)
(* Model of three units of the instructure-ui component library:           *)
(*   - Table.Row's generateComponentTheme (ui-table/src/Table/Row/theme.ts)*)
(*   - the NumberInput prop contract (ui-number-input/.../props.ts)        *)
(*   - Tabs.Panel as exercised by Panel.test.tsx                           *)
(* JavaScript values are modelled as tagged records [t |-> type, v |-> _]. *)
(***************************************************************************)
EXTENDS Integers, Sequences, FiniteSets, TLC

VARIABLES
    theme,       \* the Theme object handed to generateComponentTheme
    themePc,     \* "theme" before the call, "generated" after it
    outcome,     \* completion of the call: a returned object or a thrown error
    props,       \* the props object handed to NumberInput
    propsPc,     \* "props" before validation, "validated", then "rendered"
    failures,    \* the failures the propTypes validators reported
    checked,     \* the prop names a validator was run for
    panelProps,  \* the props <Tabs.Panel> is mounted with
    panelPc,     \* "unmounted", "mounted", "found"
    dom,         \* the rendered elements, in document order
    tabPanel     \* what find('[role="tabpanel"]') returned

vars == <<theme, themePc, outcome, props, propsPc, failures, checked,
          panelProps, panelPc, dom, tabPanel>>

themeVars == <<theme, themePc, outcome>>
propsVars == <<props, propsPc, failures, checked>>
panelVars == <<panelProps, panelPc, dom, tabPanel>>

(***************************************************************************)
(* JavaScript values                                                       *)
(***************************************************************************)
Undefined == [t |-> "undefined"]
Null == [t |-> "null"]
Str(s) == [t |-> "string", v |-> s]
Num(n) == [t |-> "number", v |-> n]
Bool(b) == [t |-> "boolean", v |-> b]
Func == [t |-> "function"]
Obj(fields) == [t |-> "object", v |-> fields]
Arr(items) == [t |-> "array", v |-> items]
EmptyObject == Obj(<<>>)
TypeError == [t |-> "throw", v |-> "TypeError"]

IsNullish(x) == x.t \in {"undefined", "null"}

\* o.k : reading a property of undefined or null throws a TypeError; a
\* property the object does not have reads as undefined.
Get(o, k) ==
    IF o.t = "throw" THEN o
    ELSE IF IsNullish(o) THEN TypeError
    ELSE IF o.t = "object" /\ k \in DOMAIN o.v THEN o.v[k]
    ELSE Undefined

\* o?.k : optional chaining short-circuits to undefined on undefined or null.
OptGetStrict(o, k) == Get(o, k)

OptGet(o, k) ==
    IF o.t = "throw" THEN o
    ELSE IF IsNullish(o) THEN Undefined
    ELSE Get(o, k)

\* String(x) as a template literal applies it to the tokens of a theme.
JsString(x) ==
    CASE x.t = "string" -> x.v
      [] x.t = "undefined" -> "undefined"
      [] x.t = "null" -> "null"
      [] OTHER -> "[object Object]"

\* Own enumerable properties copied by an object spread {...x}: none for
\* undefined, null and functions.
OwnProps(x) == IF x.t = "object" THEN x.v ELSE <<>>

\* { ...a, ...b } : b's own properties win, also when their value is undefined.
Spread(a, b) ==
    [k \in (DOMAIN OwnProps(a)) \cup (DOMAIN OwnProps(b)) |->
        IF k \in DOMAIN OwnProps(b) THEN OwnProps(b)[k] ELSE OwnProps(a)[k]]

\* Property names every object literal inherits from Object.prototype.
ObjectPrototypeKeys == {"constructor", "toString", "hasOwnProperty"}

\* obj[name] on an object literal: the name is coerced to a string; an
\* inherited name reads a function of Object.prototype.
Lookup(obj, name) ==
    LET k == JsString(name) IN
    IF k \in DOMAIN obj.v THEN obj.v[k]
    ELSE IF k \in ObjectPrototypeKeys THEN Func
    ELSE Undefined

(***************************************************************************)
(* Table.Row theme generator                                               *)
(***************************************************************************)
NumColors == 2

Palette == <<"#0374B5", "#2B7ABC", "#0A5A9E", "#1D354F", "#6B7780">>

BrandColors == {Str(Palette[i]) : i \in 1..NumColors}

ThemeKeys == {"fontSize", "fontFamily", "fontWeight", "color", "background",
              "borderColor", "hoverBorderColor", "padding"}

ThemeNames == {Undefined, Str("canvas"), Str("canvas-high-contrast"),
               Str("constructor")}

Typographies ==
    {Undefined} \cup
    {Obj([fontSizeMedium |-> a, fontFamily |-> b, fontWeightNormal |-> c]) :
        a \in {Undefined, Str("1rem")},
        b \in {Undefined, Str("LatoWeb")},
        c \in {Undefined, Str("400")}}

Spacings == {Undefined, EmptyObject, Obj([xSmall |-> Str("0.5rem")])}

Contrasts ==
    {Undefined} \cup
    {Obj([grey125125 |-> a, white1010 |-> b, grey1214 |-> c, blue4570 |-> d]) :
        a \in {Undefined, Str("#273540")},
        b \in {Undefined, Str("#FFFFFF")},
        c \in {Undefined, Str("#E8EAEC")},
        d \in {Undefined} \cup BrandColors}

Colors == {Undefined} \cup {Obj([contrasts |-> c]) : c \in Contrasts}

Themes ==
    {[colors |-> c, typography |-> t, spacing |-> s, key |-> k]
        @@ ("ic-brand-primary" :> p) :
        c \in Colors, t \in Typographies, s \in Spacings, k \in ThemeNames,
        p \in {Undefined} \cup BrandColors}

\* const { colors, typography, spacing, key: themeName } = theme, and the
\* override table keyed by theme name.
themeSpecificStyleAllThemes(th) ==
    Obj(("canvas" :> Obj([hoverBorderColor |-> th["ic-brand-primary"]]))
        @@ ("canvas-high-contrast" :>
                Obj([hoverBorderColor |-> th["ic-brand-primary"]])))

themeSpecificStyleWrongToken(th) ==
    Obj("canvas" :> Obj([hoverBorderColor |->
            OptGet(OptGet(th.colors, "contrasts"), "blue4570")]))

themeSpecificStyle(th) ==
    Obj("canvas" :> Obj([hoverBorderColor |-> th["ic-brand-primary"]]))

\* `${token} 0`
PaddingTemplate(token) ==
    IF token.t = "throw" THEN token ELSE Str(JsString(token) \o " 0")

componentVariablesBarePadding(th) ==
    [fontSize |-> OptGet(th.typography, "fontSizeMedium"),
     fontFamily |-> OptGet(th.typography, "fontFamily"),
     fontWeight |-> OptGet(th.typography, "fontWeightNormal"),
     color |-> OptGet(OptGet(th.colors, "contrasts"), "grey125125"),
     background |-> OptGet(OptGet(th.colors, "contrasts"), "white1010"),
     borderColor |-> OptGet(OptGet(th.colors, "contrasts"), "grey1214"),
     hoverBorderColor |-> OptGet(OptGet(th.colors, "contrasts"), "blue4570"),
     padding |-> OptGet(th.spacing, "xSmall")]

componentVariablesMisspelt(th) ==
    [fontSize |-> OptGet(th.typography, "fontSizeMedium"),
     fontFamily |-> OptGet(th.typography, "fontFamily"),
     fontWeight |-> OptGet(th.typography, "fontWeightRegular"),
     color |-> OptGet(OptGet(th.colors, "contrasts"), "grey125125"),
     background |-> OptGet(OptGet(th.colors, "contrasts"), "white1010"),
     borderColor |-> OptGet(OptGet(th.colors, "contrasts"), "grey1214"),
     hoverBorderColor |-> OptGet(OptGet(th.colors, "contrasts"), "blue4570"),
     padding |-> PaddingTemplate(OptGet(th.spacing, "xSmall"))]

componentVariables(th) ==
    [fontSize |-> OptGet(th.typography, "fontSizeMedium"),
     fontFamily |-> OptGet(th.typography, "fontFamily"),
     fontWeight |-> OptGet(th.typography, "fontWeightNormal"),
     color |-> OptGet(OptGet(th.colors, "contrasts"), "grey125125"),
     background |-> OptGet(OptGet(th.colors, "contrasts"), "white1010"),
     borderColor |-> OptGet(OptGet(th.colors, "contrasts"), "grey1214"),
     hoverBorderColor |-> OptGet(OptGet(th.colors, "contrasts"), "blue4570"),
     padding |-> PaddingTemplate(OptGet(th.spacing, "xSmall"))]

Return(x) == [t |-> "return", v |-> x]

\* The whole call: evaluating an initializer that throws abandons the call;
\* otherwise the two spreads build the returned object.
generateComponentTheme(th) ==
    LET base == componentVariables(th)
        override == Lookup(themeSpecificStyle(th), th.key)
    IN  IF \E k \in DOMAIN base : base[k].t = "throw"
        THEN TypeError
        ELSE Return(Obj(Spread(Obj(base), override)))

NoOutcome == [t |-> "none"]

ThemeIdle ==
    /\ theme = [colors |-> Undefined, typography |-> Undefined,
                spacing |-> Undefined, key |-> Undefined]
                @@ ("ic-brand-primary" :> Undefined)
    /\ themePc = "idle"
    /\ outcome = NoOutcome

ThemeStart ==
    /\ theme \in Themes
    /\ themePc = "theme"
    /\ outcome = NoOutcome

Generate ==
    /\ themePc = "theme"
    /\ outcome' = generateComponentTheme(theme)
    /\ themePc' = "generated"
    /\ UNCHANGED <<theme, propsVars, panelVars>>

(***************************************************************************)
(* NumberInput prop contract                                               *)
(***************************************************************************)
MaxOmitted == 2

\* Validators as PropTypes builds them; isRequired is the chained flag.
Checker(kind, arg, isRequired) ==
    [kind |-> kind, arg |-> arg, isRequired |-> isRequired]

PTstring == Checker("string", <<>>, FALSE)
PTbool == Checker("bool", <<>>, FALSE)
PTfunc == Checker("func", <<>>, FALSE)
PTnumber == Checker("number", <<>>, FALSE)
PTnode == Checker("node", <<>>, FALSE)
PToneOf(values) == Checker("oneOf", values, FALSE)
PToneOfType(checkers) == Checker("oneOfType", checkers, FALSE)
PTarrayOf(checker) == Checker("arrayOf", <<checker>>, FALSE)
PTshape(fields) == Checker("shape", fields, FALSE)
Required(checker) == [checker EXCEPT !.isRequired = TRUE]

\* FormPropTypes.message: { text: ReactNode, type: one of four literals }.
FormPropTypesMessage ==
    PTshape([text |-> PTnode,
             type |-> PToneOf(<<Str("error"), Str("hint"), Str("success"),
                                Str("screenreader-only")>>)])

propTypesRequiredId ==
    [renderLabel |-> Required(PToneOfType(<<PTnode, PTfunc>>)),
     id |-> Required(PTstring),
     interaction |-> PToneOf(<<Str("enabled"), Str("disabled"), Str("readonly")>>),
     messages |-> PTarrayOf(FormPropTypesMessage),
     placeholder |-> PTstring,
     isRequired |-> PTbool,
     showArrows |-> PTbool,
     size |-> PToneOf(<<Str("medium"), Str("large")>>),
     value |-> PToneOfType(<<PTstring, PTnumber>>),
     width |-> PTstring,
     display |-> PToneOf(<<Str("inline-block"), Str("block")>>),
     inputRef |-> PTfunc,
     onFocus |-> PTfunc,
     onBlur |-> PTfunc,
     onChange |-> PTfunc,
     onDecrement |-> PTfunc,
     onIncrement |-> PTfunc,
     onKeyDown |-> PTfunc,
     inputMode |-> PToneOf(<<Str("numeric"), Str("decimal"), Str("tel")>>),
     textAlign |-> PToneOf(<<Str("start"), Str("center")>>)]

propTypesWithSmall ==
    [renderLabel |-> Required(PToneOfType(<<PTnode, PTfunc>>)),
     id |-> PTstring,
     interaction |-> PToneOf(<<Str("enabled"), Str("disabled"), Str("readonly")>>),
     messages |-> PTarrayOf(FormPropTypesMessage),
     placeholder |-> PTstring,
     isRequired |-> PTbool,
     showArrows |-> PTbool,
     size |-> PToneOf(<<Str("small"), Str("medium"), Str("large")>>),
     value |-> PToneOfType(<<PTstring, PTnumber>>),
     width |-> PTstring,
     display |-> PToneOf(<<Str("inline-block"), Str("block")>>),
     inputRef |-> PTfunc,
     onFocus |-> PTfunc,
     onBlur |-> PTfunc,
     onChange |-> PTfunc,
     onDecrement |-> PTfunc,
     onIncrement |-> PTfunc,
     onKeyDown |-> PTfunc,
     inputMode |-> PToneOf(<<Str("numeric"), Str("decimal"), Str("tel")>>),
     textAlign |-> PToneOf(<<Str("start"), Str("center")>>)]

propTypes ==
    [renderLabel |-> Required(PToneOfType(<<PTnode, PTfunc>>)),
     id |-> PTstring,
     interaction |-> PToneOf(<<Str("enabled"), Str("disabled"), Str("readonly")>>),
     messages |-> PTarrayOf(FormPropTypesMessage),
     placeholder |-> PTstring,
     isRequired |-> PTbool,
     showArrows |-> PTbool,
     size |-> PToneOf(<<Str("medium"), Str("large")>>),
     value |-> PToneOfType(<<PTstring, PTnumber>>),
     width |-> PTstring,
     display |-> PToneOf(<<Str("inline-block"), Str("block")>>),
     inputRef |-> PTfunc,
     onFocus |-> PTfunc,
     onBlur |-> PTfunc,
     onChange |-> PTfunc,
     onDecrement |-> PTfunc,
     onIncrement |-> PTfunc,
     onKeyDown |-> PTfunc,
     inputMode |-> PToneOf(<<Str("numeric"), Str("decimal"), Str("tel")>>),
     textAlign |-> PToneOf(<<Str("start"), Str("center")>>)]

allowedPropsWithoutInputMode ==
    <<"renderLabel", "id", "interaction", "messages", "placeholder",
      "isRequired", "showArrows", "size", "value", "width", "display",
      "inputRef", "onFocus", "onBlur", "onChange", "onDecrement",
      "onIncrement", "onKeyDown", "textAlign", "textAlign">>

allowedProps ==
    <<"renderLabel", "id", "interaction", "messages", "placeholder",
      "isRequired", "showArrows", "size", "value", "width", "display",
      "inputRef", "onFocus", "onBlur", "onChange", "onDecrement",
      "onIncrement", "onKeyDown", "inputMode", "textAlign">>

Range(seq) == {seq[i] : i \in DOMAIN seq}

\* Object.is on the primitives the validators compare.
ObjectIs(a, b) == a.t = b.t /\ (a.t \in {"string", "number", "boolean"} => a.v = b.v)

\* Whether a non-nullish value passes a validator. A nested validator is
\* called through its own chainable wrapper, which lets undefined and null
\* pass unless it is required.
RECURSIVE Validate(_, _)
Validate(checker, value) ==
    LET chained(c, x) ==
            IF IsNullish(x) THEN ~c.isRequired ELSE Validate(c, x)
    IN  CASE checker.kind = "string" -> value.t = "string"
          [] checker.kind = "bool" -> value.t = "boolean"
          [] checker.kind = "func" -> value.t = "function"
          [] checker.kind = "number" -> value.t = "number"
          [] checker.kind = "node" ->
                \/ value.t \in {"string", "number", "element"}
                \/ value.t = "boolean" /\ ~value.v
                \/ value.t = "array" /\
                       \A i \in DOMAIN value.v :
                           IsNullish(value.v[i]) \/ Validate(PTnode, value.v[i])
          [] checker.kind = "oneOf" ->
                \E i \in DOMAIN checker.arg : ObjectIs(value, checker.arg[i])
          [] checker.kind = "oneOfType" ->
                \E i \in DOMAIN checker.arg : chained(checker.arg[i], value)
          [] checker.kind = "arrayOf" ->
                /\ value.t = "array"
                /\ \A i \in DOMAIN value.v : chained(checker.arg[1], value.v[i])
          [] checker.kind = "shape" ->
                /\ value.t = "object"
                /\ \A k \in DOMAIN checker.arg :
                       chained(checker.arg[k], Get(value, k))
          [] OTHER -> FALSE

\* One validator applied to props[propName]: "none" when it returns null,
\* otherwise the kind of Error it returns.
CheckProp(checker, value) ==
    IF IsNullish(value)
    THEN IF checker.isRequired THEN "required" ELSE "none"
    ELSE IF Validate(checker, value) THEN "none" ELSE "invalid"

\* Every validator of the contract run over the props: the failures reported.
Failures(typeSpecs, values) ==
    {[prop |-> k, kind |-> CheckProp(typeSpecs[k], values[k])] :
        k \in {n \in DOMAIN typeSpecs :
                  CheckProp(typeSpecs[n], values[n]) # "none"}}

OptionalProps == Range(allowedProps) \ {"renderLabel", "size", "inputMode"}

\* A well-typed value for each optional prop.
ValidProps ==
    [renderLabel |-> Str("Label"),
     id |-> Str("input-1"),
     interaction |-> Str("enabled"),
     messages |-> Arr(<<Obj([text |-> Str("Invalid number"),
                             type |-> Str("error")])>>),
     placeholder |-> Str("0"),
     isRequired |-> Bool(FALSE),
     showArrows |-> Bool(TRUE),
     size |-> Str("medium"),
     value |-> Num(42),
     width |-> Str("10rem"),
     display |-> Str("block"),
     inputRef |-> Func,
     onFocus |-> Func,
     onBlur |-> Func,
     onChange |-> Func,
     onDecrement |-> Func,
     onIncrement |-> Func,
     onKeyDown |-> Func,
     inputMode |-> Str("numeric"),
     textAlign |-> Str("start")]

RenderLabelInputs == {Undefined, Null, Str("Label"), Func}

SizeInputs ==
    {Undefined, Null, Str("small"), Str("medium"), Str("large"),
     Str("numeric"), Num(0)}

InputModeInputs ==
    {Undefined, Null, Str("numeric"), Str("decimal"), Str("tel"),
     Str("text"), Str("medium")}

SmallSubsets(S, n) == {T \in SUBSET S : Cardinality(T) <= n}

PropsInputs ==
    {[k \in DOMAIN ValidProps |->
         CASE k = "renderLabel" -> l
           [] k = "size" -> sz
           [] k = "inputMode" -> im
           [] k \in omitted -> Undefined
           [] OTHER -> ValidProps[k]] :
        l \in RenderLabelInputs, sz \in SizeInputs, im \in InputModeInputs,
        omitted \in SmallSubsets(OptionalProps, MaxOmitted)}

PropsIdle ==
    /\ props = ValidProps
    /\ propsPc = "idle"
    /\ failures = {}
    /\ checked = {}

PropsStart ==
    /\ props \in PropsInputs
    /\ propsPc = "props"
    /\ failures = {}
    /\ checked = {}

\* React runs the component's propTypes over the props before rendering and
\* logs each returned Error as a warning.
ValidateProps ==
    /\ propsPc = "props"
    /\ failures' = Failures(propTypes, props)
    /\ checked' = DOMAIN propTypes
    /\ propsPc' = "validated"
    /\ UNCHANGED <<props, themeVars, panelVars>>

\* The render goes ahead whatever the validators reported.
RenderNumberInput ==
    /\ propsPc = "validated"
    /\ propsPc' = "rendered"
    /\ UNCHANGED <<props, failures, checked, themeVars, panelVars>>

(***************************************************************************)
(* Tabs.Panel, as mounted and queried by Panel.test.tsx                    *)
(***************************************************************************)
MaxChildren == 2

PanelTexts == {"Panel contents", "More"}

PanelTitles == {"Panel Title", "Panel contents", "More"}

\* The children of a panel: a sequence of text nodes.
ChildrenInputs ==
    UNION {[1..n -> PanelTexts] : n \in 0..MaxChildren}

PanelInputs ==
    [isSelected : BOOLEAN, renderTitle : PanelTitles, children : ChildrenInputs]

RECURSIVE Concat(_)
Concat(texts) ==
    IF texts = <<>> THEN "" ELSE Head(texts) \o Concat(Tail(texts))

\* The panel renders one container carrying the tabpanel role; its children
\* are rendered inside the container only while the panel is selected. The
\* title is rendered by the tab list, not by the panel.
RenderPanelWithTitle(p) ==
    <<[tag |-> "div",
       attributes |-> [role |-> "tabpanel"],
       childNodes |-> IF p.isSelected
                      THEN <<p.renderTitle>> \o p.children ELSE <<>>]>>

RenderPanelAsTab(p) ==
    <<[tag |-> "div",
       attributes |-> [role |-> "tab"],
       childNodes |-> IF p.isSelected THEN p.children ELSE <<>>]>>

RenderPanel(p) ==
    <<[tag |-> "div",
       attributes |-> [role |-> "tabpanel"],
       childNodes |-> IF p.isSelected THEN p.children ELSE <<>>]>>

\* The role named by the test's selector '[role="tabpanel"]'.
TabPanelSelector == "tabpanel"

NotFound == [tag |-> "none", attributes |-> <<>>, childNodes |-> <<>>]

\* find(selector): the first element whose role attribute matches.
FindByRole(elements, role) ==
    LET hits == {i \in DOMAIN elements :
                    /\ "role" \in DOMAIN elements[i].attributes
                    /\ elements[i].attributes.role = role}
    IN  IF hits = {} THEN NotFound
        ELSE elements[CHOOSE i \in hits : \A j \in hits : i <= j]

\* element.getTextContent()
GetTextContent(element) == Concat(element.childNodes)

\* element.getAttribute(name)
GetAttribute(element, name) ==
    IF name \in DOMAIN element.attributes
    THEN Str(element.attributes[name]) ELSE Null

PanelIdle ==
    /\ panelProps = [isSelected |-> FALSE, renderTitle |-> "", children |-> <<>>]
    /\ panelPc = "idle"
    /\ dom = <<>>
    /\ tabPanel = NotFound

PanelStart ==
    /\ panelProps \in PanelInputs
    /\ panelPc = "unmounted"
    /\ dom = <<>>
    /\ tabPanel = NotFound

\* await mount(<Panel ...>...</Panel>)
Mount ==
    /\ panelPc = "unmounted"
    /\ dom' = RenderPanel(panelProps)
    /\ panelPc' = "mounted"
    /\ UNCHANGED <<panelProps, tabPanel, themeVars, propsVars>>

\* const tabPanel = await find('[role="tabpanel"]')
Find ==
    /\ panelPc = "mounted"
    /\ tabPanel' = FindByRole(dom, TabPanelSelector)
    /\ panelPc' = "found"
    /\ UNCHANGED <<panelProps, dom, themeVars, propsVars>>

NextProps == ValidateProps \/ RenderNumberInput

NextPanel == Mount \/ Find

InitProps == ThemeIdle /\ PanelIdle /\ PropsStart

InitPanel == ThemeIdle /\ PropsIdle /\ PanelStart

InitTheme == PropsIdle /\ PanelIdle /\ ThemeStart

SpecProps == InitProps /\ [][NextProps]_vars

SpecPanel == InitPanel /\ [][NextPanel]_vars

NextTheme == Generate

SpecTheme == InitTheme /\ [][NextTheme]_vars

\* The object the call returned, as a function from theme key to value.
Generated == outcome.v.v

DefaultHoverBorderColor == Get(Get(theme.colors, "contrasts"), "blue4570")

\* C1: whenever the theme's key is 'canvas', the generated hoverBorderColor
\* is the override theme['ic-brand-primary'], and so differs from the default
\* colors.contrasts.blue4570 whenever the two differ.
C1_CanvasOverride ==
    (themePc = "generated" /\ theme.key = Str("canvas")) =>
        /\ outcome.t = "return"
        /\ "hoverBorderColor" \in DOMAIN Generated
        /\ Generated.hoverBorderColor = theme["ic-brand-primary"]
        /\ (theme["ic-brand-primary"] # OptGet(OptGet(theme.colors, "contrasts"), "blue4570")
                => Generated.hoverBorderColor
                     # OptGet(OptGet(theme.colors, "contrasts"), "blue4570"))

C1_Witness ==
    /\ themePc = "generated"
    /\ theme.key = Str("canvas")
    /\ theme["ic-brand-primary"] = Str(Palette[2])
    /\ theme.colors.t = "object" /\ theme.colors.v.contrasts.t = "object"
    /\ DefaultHoverBorderColor = Str(Palette[1])
    /\ Generated.hoverBorderColor = Str(Palette[2])

\* A theme that carries the typography and spacing tokens Table.Row reads.
HasTokens ==
    /\ theme.typography.t = "object"
    /\ theme.typography.v.fontSizeMedium.t = "string"
    /\ theme.typography.v.fontFamily.t = "string"
    /\ theme.spacing.t = "object"
    /\ "xSmall" \in DOMAIN theme.spacing.v
    /\ theme.spacing.v.xSmall.t = "string"

\* C2 as stated: fontSize, fontFamily and padding equal the tokens
\* typography.fontSizeMedium, typography.fontFamily and spacing.xSmall.
C2_PaddingIsToken ==
    (themePc = "generated" /\ HasTokens) =>
        /\ outcome.t = "return"
        /\ Generated.fontSize = theme.typography.v.fontSizeMedium
        /\ Generated.fontFamily = theme.typography.v.fontFamily
        /\ Generated.padding = theme.spacing.v.xSmall

\* C2 amended: fontSize and fontFamily equal their typography tokens, and
\* padding is the two-value shorthand made of spacing.xSmall followed by " 0".
C2_PaddingIsShorthand ==
    (themePc = "generated" /\ HasTokens) =>
        /\ outcome.t = "return"
        /\ Generated.fontSize = theme.typography.v.fontSizeMedium
        /\ Generated.fontFamily = theme.typography.v.fontFamily
        /\ Generated.padding.t = "string"
        /\ Generated.padding.v = theme.spacing.v.xSmall.v \o " 0"
        /\ Generated.padding # theme.spacing.v.xSmall

C2_Witness ==
    /\ themePc = "generated"
    /\ HasTokens
    /\ theme.key = Str("canvas-high-contrast")
    /\ Generated.fontSize = Str("1rem")
    /\ Generated.fontFamily = Str("LatoWeb")
    /\ Generated.padding = Str("0.5rem 0")

(***************************************************************************)
(* Tabs.Panel properties                                                   *)
(***************************************************************************)
TabPanels == {i \in DOMAIN dom : GetAttribute(dom[i], "role") = Str("tabpanel")}

\* C3: for a panel mounted with isSelected and with children, the element
\* found by role "tabpanel" has exactly the children's text as its text
\* content (nothing else, in particular not the renderTitle text).
C3_RendersChildren ==
    (panelPc = "found" /\ panelProps.isSelected /\ panelProps.children # <<>>) =>
        /\ tabPanel # NotFound
        /\ GetTextContent(tabPanel) = Concat(panelProps.children)

C3_Witness ==
    /\ panelPc = "found"
    /\ panelProps.isSelected
    /\ panelProps.renderTitle = "Panel Title"
    /\ panelProps.children = <<"Panel contents">>
    /\ GetTextContent(tabPanel) = "Panel contents"

\* C4: a panel mounted with isSelected renders exactly one container whose
\* role attribute is "tabpanel", and the query [role="tabpanel"] finds it.
C4_TabpanelRole ==
    /\ (panelPc \in {"mounted", "found"} /\ panelProps.isSelected) =>
           /\ Cardinality(TabPanels) = 1
           /\ Len(dom) = 1
    /\ (panelPc = "found" /\ panelProps.isSelected) =>
           /\ tabPanel # NotFound
           /\ tabPanel \in Range(dom)
           /\ GetAttribute(tabPanel, "role") = Str("tabpanel")

C4_Witness ==
    /\ panelPc = "found"
    /\ panelProps.isSelected
    /\ tabPanel = dom[1]
    /\ GetAttribute(tabPanel, "role") = Str("tabpanel")

(***************************************************************************)
(* NumberInput prop contract properties                                    *)
(***************************************************************************)
Validated == propsPc \in {"validated", "rendered"}

Accepted(prop) == \A f \in failures : f.prop # prop

SizeLiterals == {Str("medium"), Str("large")}

InputModeLiterals == {Str("numeric"), Str("decimal"), Str("tel")}

\* C5 as stated: a supplied size is accepted iff it is 'medium' or 'large',
\* a supplied inputMode iff it is 'numeric', 'decimal' or 'tel'; any other
\* supplied value (null included) is reported as a failure.
C5_EnumsExact ==
    Validated =>
        /\ (props.size # Undefined => (Accepted("size") <=> props.size \in SizeLiterals))
        /\ (props.inputMode # Undefined =>
               (Accepted("inputMode") <=> props.inputMode \in InputModeLiterals))

\* C5 amended: a supplied value other than null is accepted iff it is one of
\* the literals, and every other such value is reported as an invalid-value
\* failure; null is treated like an omitted (undefined) prop and accepted.
C5_EnumsExactButNull ==
    Validated =>
        /\ (~IsNullish(props.size) =>
               (Accepted("size") <=> props.size \in SizeLiterals))
        /\ (~IsNullish(props.inputMode) =>
               (Accepted("inputMode") <=> props.inputMode \in InputModeLiterals))
        /\ (~IsNullish(props.size) /\ props.size \notin SizeLiterals =>
               [prop |-> "size", kind |-> "invalid"] \in failures)
        /\ (~IsNullish(props.inputMode) /\ props.inputMode \notin InputModeLiterals =>
               [prop |-> "inputMode", kind |-> "invalid"] \in failures)
        /\ (IsNullish(props.size) => Accepted("size"))
        /\ (IsNullish(props.inputMode) => Accepted("inputMode"))

C5_Witness ==
    /\ propsPc = "validated"
    /\ props.size = Str("small")
    /\ props.inputMode = Str("tel")
    /\ [prop |-> "size", kind |-> "invalid"] \in failures
    /\ Accepted("inputMode")

\* C6: renderLabel is the only required prop. Validating props without it
\* reports a missing-required failure; omitting any of the other 19 props
\* reports nothing for them; and whatever was reported, the failures are
\* only a value and the render still goes ahead.
C6_OnlyRenderLabelRequired ==
    Validated =>
        /\ (IsNullish(props.renderLabel) =>
               [prop |-> "renderLabel", kind |-> "required"] \in failures)
        /\ \A f \in failures : f.kind = "required" => f.prop = "renderLabel"
        /\ Cardinality(DOMAIN props \ {"renderLabel"}) = 19
        /\ \A k \in DOMAIN props \ {"renderLabel"} :
               props[k] = Undefined => Accepted(k)
        /\ ( /\ ~IsNullish(props.renderLabel)
             /\ props.size \in SizeLiterals \cup {Undefined}
             /\ props.inputMode \in InputModeLiterals \cup {Undefined}
             => failures = {} )
        /\ (propsPc = "validated" => ENABLED RenderNumberInput)

C6_Witness ==
    /\ propsPc = "rendered"
    /\ props.renderLabel = Undefined
    /\ props.id = Undefined
    /\ props.onChange = Undefined
    /\ props.size = Undefined
    /\ props.inputMode = Undefined
    /\ failures = {[prop |-> "renderLabel", kind |-> "required"]}

\* C7: the keys listed in allowedProps are exactly the keys of propTypes
\* (20 names, none missing on either side), allowedProps lists no key
\* twice, and so a validator is run for every allowed prop.
C7_AllowedPropsMatchValidators ==
    /\ Range(allowedProps) = DOMAIN propTypes
    /\ Cardinality(DOMAIN propTypes) = 20
    /\ Len(allowedProps) = 20
    /\ \A i, j \in DOMAIN allowedProps : allowedProps[i] = allowedProps[j] => i = j
    /\ (Validated => checked = Range(allowedProps))

C7_Witness ==
    /\ propsPc = "validated"
    /\ checked = Range(allowedProps)
    /\ Cardinality(checked) = 20
    /\ \A k \in Range(allowedProps) : props[k] # Undefined

(***************************************************************************)
(* Table.Row theme properties (continued)                                  *)
(***************************************************************************)
\* A key of the generated theme holds a resolved value: a string that was
\* not built from an undefined or null token.
Resolved(k) ==
    /\ k \in DOMAIN Generated
    /\ Generated[k].t = "string"
    /\ (k = "padding" => Generated[k].v \notin {"undefined 0", "null 0"})

\* C8 as stated: for every input theme and theme name, every key of the
\* generated theme is resolved.
C8_AlwaysResolved ==
    themePc = "generated" =>
        /\ outcome.t = "return"
        /\ \A k \in ThemeKeys : Resolved(k)

\* The theme supplies every token Table.Row reads, and the brand colour
\* when it is the canvas theme.
CompleteTheme ==
    /\ theme.typography.t = "object"
    /\ \A k \in DOMAIN theme.typography.v : theme.typography.v[k].t = "string"
    /\ theme.spacing.t = "object"
    /\ "xSmall" \in DOMAIN theme.spacing.v
    /\ theme.spacing.v.xSmall.t = "string"
    /\ theme.colors.t = "object"
    /\ theme.colors.v.contrasts.t = "object"
    /\ \A k \in DOMAIN theme.colors.v.contrasts.v :
           theme.colors.v.contrasts.v[k].t = "string"
    /\ (theme.key = Str("canvas") => theme["ic-brand-primary"].t = "string")

\* C8 amended: for every theme that supplies all the tokens Table.Row reads
\* (and 'ic-brand-primary' when its key is 'canvas'), and every theme name,
\* every key of the generated theme is resolved.
C8_ResolvedWhenComplete ==
    (themePc = "generated" /\ CompleteTheme) =>
        /\ outcome.t = "return"
        /\ DOMAIN Generated = ThemeKeys
        /\ \A k \in ThemeKeys : Resolved(k)

C8_Witness ==
    /\ themePc = "generated"
    /\ CompleteTheme
    /\ theme.key = Str("canvas")
    /\ \A k \in ThemeKeys : Resolved(k)

\* C9: the call never throws: for every theme object, also one without
\* colors, colors.contrasts, typography, spacing, key or 'ic-brand-primary',
\* and one whose key has no registered override, it returns an object.
C9_NeverThrows ==
    themePc = "generated" =>
        /\ outcome.t = "return"
        /\ outcome.v.t = "object"

C9_Witness ==
    /\ themePc = "generated"
    /\ theme.colors = Undefined
    /\ theme.typography = Undefined
    /\ theme.spacing = Undefined
    /\ theme.key = Undefined
    /\ theme["ic-brand-primary"] = Undefined
    /\ outcome.t = "return"
    /\ Generated.padding = Str("undefined 0")

\* C10: the theme name changes nothing but hoverBorderColor: the result for
\* the same theme under any other key agrees on the seven other keys; and
\* for a key other than 'canvas' the result is exactly the base variables,
\* with hoverBorderColor equal to colors.contrasts.blue4570.
C10_NameOnlyChangesHover ==
    themePc = "generated" =>
        /\ outcome.t = "return"
        /\ \A name \in ThemeNames :
              LET other == generateComponentTheme([theme EXCEPT !.key = name])
              IN  /\ other.t = "return"
                  /\ \A k \in ThemeKeys \ {"hoverBorderColor"} :
                         other.v.v[k] = Generated[k]
        /\ (theme.key # Str("canvas") =>
              /\ DOMAIN Generated = ThemeKeys
              /\ \A k \in ThemeKeys \ {"hoverBorderColor"} :
                     Generated[k] = componentVariables(theme)[k]
              /\ Generated.hoverBorderColor =
                     OptGet(OptGet(theme.colors, "contrasts"), "blue4570"))

C10_Witness ==
    /\ themePc = "generated"
    /\ theme.key = Str("canvas-high-contrast")
    /\ theme["ic-brand-primary"] = Str(Palette[2])
    /\ Generated.hoverBorderColor = Str(Palette[1])
    /\ generateComponentTheme([theme EXCEPT !.key = Str("canvas")]).v.v.hoverBorderColor
           = Str(Palette[2])

====
